---- MODULE Spec2Model ----
(***************************************************************************)
(* A model of donut-utils (src/main.go): the installer reads a list of     *)
(* repositories, asks the GitHub API for each repository's description and *)
(* latest release, keeps the first asset that matches the platform, asks   *)
(* for confirmation, downloads the kept assets and registers the download  *)
(* directory on the shell PATH.                                            *)
(*                                                                         *)
(* Strings the program inspects (lines, asset names, URLs) are sequences   *)
(* of one-character strings, so that substring search, trimming, case      *)
(* folding and splitting are computed character by character.  Strings the *)
(* program only passes along are TLA+ strings.                             *)
(***************************************************************************)
EXTENDS Integers, Sequences, FiniteSets, TLC

(***************************************************************************)
(* Bounds of the model.                                                    *)
(***************************************************************************)
MaxRepos == 2      \* lines of repolist.txt
MaxAssets == 2     \* assets of one release
MaxRuns == 2       \* executions of the program on the same machine

(***************************************************************************)
(* Library string functions, as the Go library computes them.              *)
(***************************************************************************)
Space == {" ", "\t", "\n", "\r", "\f"}

UpperCase == <<"A","B","C","D","E","F","G","H","I","J","K","L","M",
               "N","O","P","Q","R","S","T","U","V","W","X","Y","Z">>
LowerCase == <<"a","b","c","d","e","f","g","h","i","j","k","l","m",
               "n","o","p","q","r","s","t","u","v","w","x","y","z">>

ToLowerChar(c) ==
    IF \E n \in 1..26 : UpperCase[n] = c
    THEN LowerCase[CHOOSE n \in 1..26 : UpperCase[n] = c]
    ELSE c

ToLower(s) == [n \in 1..Len(s) |-> ToLowerChar(s[n])]

RECURSIVE TrimLeft(_)
TrimLeft(s) ==
    IF s # <<>> /\ Head(s) \in Space THEN TrimLeft(Tail(s)) ELSE s

RECURSIVE TrimRight(_)
TrimRight(s) ==
    IF s # <<>> /\ s[Len(s)] \in Space
    THEN TrimRight(SubSeq(s, 1, Len(s) - 1))
    ELSE s

TrimSpace(s) == TrimRight(TrimLeft(s))

\* sub occurs in s at the 0-based offset n
OccursAt(s, sub, n) ==
    /\ n + Len(sub) <= Len(s)
    /\ \A j \in 1..Len(sub) : s[n + j] = sub[j]

\* strings.Index: the 0-based offset of the first occurrence, or -1
RECURSIVE IndexFrom(_, _, _)
IndexFrom(s, sub, n) ==
    IF n + Len(sub) > Len(s) THEN -1
    ELSE IF OccursAt(s, sub, n) THEN n
    ELSE IndexFrom(s, sub, n + 1)

Index(s, sub) == IndexFrom(s, sub, 0)

Contains(s, sub) == Index(s, sub) >= 0

\* strings.Split(s, sep) for a one-character separator
RECURSIVE SplitFrom(_, _, _)
SplitFrom(s, sep, cur) ==
    IF s = <<>> THEN <<cur>>
    ELSE IF Head(s) = sep THEN <<cur>> \o SplitFrom(Tail(s), sep, <<>>)
    ELSE SplitFrom(Tail(s), sep, Append(cur, Head(s)))

Split(s, sep) == SplitFrom(s, sep, <<>>)

RECURSIVE StripSlashes(_)
StripSlashes(p) ==
    IF p # <<>> /\ p[Len(p)] = "/"
    THEN StripSlashes(SubSeq(p, 1, Len(p) - 1))
    ELSE p

RECURSIVE AfterLastSlash(_)
AfterLastSlash(p) ==
    IF \E n \in 1..Len(p) : p[n] = "/"
    THEN AfterLastSlash(Tail(p))
    ELSE p

\* filepath.Base: the last element of the path, trailing slashes removed
Base(p) ==
    IF p = <<>> THEN <<".">>
    ELSE IF StripSlashes(p) = <<>> THEN <<"/">>
    ELSE AfterLastSlash(StripSlashes(p))

\* bufio.Reader.ReadString: the input up to and including the first
\* delimiter; an error (EOF) when the input ends before a delimiter
ReadString(input, delim) ==
    IF \E n \in 1..Len(input) : input[n] = delim
    THEN [data |-> SubSeq(input, 1,
                     CHOOSE n \in 1..Len(input) :
                        /\ input[n] = delim
                        /\ \A m \in 1..(n - 1) : input[m] # delim),
          err |-> FALSE]
    ELSE [data |-> input, err |-> TRUE]

(***************************************************************************)
(* The values the environment can supply.                                  *)
(***************************************************************************)
Linux == <<"l","i","n","u","x">>
Windows == <<"w","i","n","d","o","w","s">>
GOOSValues == {Linux, Windows}
GOARCH == <<"a","m","d","6","4">>

V1 == <<"-","v","1">>
Host == <<"h","/">>

AssetName(app, ver, os, arch) == app \o ver \o <<"-">> \o os \o <<"-">> \o arch

Asset(name, url) == [Name |-> name, BrowserDownloadUrl |-> url]

\* The assets a release can list: for each platform a matching asset, a
\* second matching asset whose download URL has another base name than
\* the asset, a near miss (the architecture in another case), a matching
\* asset without version marker, and one with nothing before the marker.
Assets ==
    LET amd == GOARCH
        n1 == AssetName(<<"t">>, V1, Linux, amd)
        n2 == AssetName(<<"u">>, V1, Linux, amd)
        n3 == AssetName(<<"t">>, V1, Linux, <<"A","M","D","6","4">>)
        n4 == AssetName(<<"t">>, V1, Windows, amd)
        n5 == AssetName(<<"u">>, <<>>, Linux, amd)
        n6 == AssetName(<<>>, V1, Windows, amd)
    IN  { Asset(n1, Host \o n1),
          Asset(n2, Host \o <<"d","/">> \o AssetName(<<"w">>, V1, Linux, amd) \o <<"/">>),
          Asset(n3, Host \o n3),
          Asset(n4, Host \o n4),
          Asset(n5, Host \o n5),
          Asset(n6, Host \o n6) }

RECURSIVE SeqsUpTo(_, _)
SeqsUpTo(S, n) ==
    IF n = 0 THEN {<<>>}
    ELSE LET shorter == SeqsUpTo(S, n - 1)
         IN  shorter \cup {Append(q, x) : q \in shorter, x \in S}

AssetLists == SeqsUpTo(Assets, MaxAssets)

\* Lines of repolist.txt: a blank line and a reference with padding
RepoLines == { <<" ">>, <<" ","a","/","t","\t">> }

RECURSIVE JoinLines(_)
JoinLines(ls) ==
    IF ls = <<>> THEN <<>> ELSE Head(ls) \o <<"\n">> \o JoinLines(Tail(ls))

\* Contents of repolist.txt: every line ends in a newline
RepoFiles == {JoinLines(ls) : ls \in SeqsUpTo(RepoLines, MaxRepos)}

Yes == <<"y","e","s">>
NL == <<"\n">>

\* What the user types at the prompt (the input may end without newline)
StdinInputs ==
    { Yes \o NL,
      <<" ","Y","E","S","\t">> \o NL,
      <<"Y","e","s","\r">> \o NL,
      <<"y">> \o NL,
      <<"Y","e","s"," ","p","l","e","a","s","e">> \o NL,
      NL,
      <<"n","o">> \o NL,
      <<"n","o">> \o NL \o Yes \o NL,
      Yes,
      <<>> }

Bash == <<"b","a","s","h">>
Zsh == <<"z","s","h">>

\* Values of the SHELL environment variable
Shells == { <<"/","b","i","n","/">> \o Bash,
            <<"/","u","s","r","/","b","i","n","/">> \o Zsh,
            <<"/","b","i","n","/","s","h">> }

HomeDir == "/home/u"
DownloadDir == ".donut-utils"

\* filepath.Join(usr.HomeDir, DownloadDir)
DownloadPath == HomeDir \o "/" \o DownloadDir

ShellProfiles == {".bashrc", ".zshrc"}
InitialProfile == <<"# shell profile">>

\* The line addToPath writes
ExportLine(dir) == "\nexport PATH=$PATH:" \o dir

Descriptions == {"a tool"}

(***************************************************************************)
(* State.                                                                  *)
(***************************************************************************)
VARIABLES
    pc,             \* where main is: "start", "fetch", "release", "prompt",
                    \* "download", "path", "done"
    GOOS,           \* runtime.GOOS of the build
    repos,          \* main: the lines of the list file
    cursor,         \* main: index in repos of the reference being fetched
    repoInfo,       \* main: repoInfo.Description of that reference
    release,        \* main: release.Assets of that reference
    availableApps,  \* main: the available applications
    deferred,       \* main: the deferred resp.Body.Close() calls
    line,           \* main: what ReadString returned
    response,       \* main: the normalised answer
    dlCursor,       \* main: index in availableApps of the next download
    requests,       \* the HTTP requests issued, in order
    responses,      \* what came back for each metadata request
    bodies,         \* the response bodies that are open
    dirExists,      \* whether the download directory exists
    files,          \* the files of the download directory, by name
    profile,        \* the shell profile files: the chunks each one holds
    stdout,         \* the messages printed by the last step
    dlCalls,        \* the URLs downloadAndStore was called with, in order
    pathCalls,      \* the calls of addToPath: [run, shell, out], in order
    run             \* which execution of the program this is

vars == << pc, GOOS, repos, cursor, repoInfo, release, availableApps, deferred, line,
           response, dlCursor, requests, responses, bodies, dirExists, files,
           profile, stdout, dlCalls, pathCalls, run >>

NoLine == [data |-> <<>>, err |-> FALSE]

Range(q) == {q[n] : n \in 1..Len(q)}

Init ==
    /\ pc = "start"
    /\ GOOS \in GOOSValues
    /\ repos = <<>>
    /\ cursor = 1
    /\ repoInfo = ""
    /\ release = <<>>
    /\ availableApps = <<>>
    /\ deferred = <<>>
    /\ line = NoLine
    /\ response = <<>>
    /\ dlCursor = 1
    /\ requests = <<>>
    /\ responses = <<>>
    /\ bodies = {}
    /\ dirExists = FALSE
    /\ files = <<>>
    /\ profile = [rc \in ShellProfiles |-> InitialProfile]
    /\ stdout = <<>>
    /\ dlCalls = <<>>
    /\ pathCalls = <<>>
    /\ run = 1

\* main returns: its deferred calls run and close the bodies they hold
Return ==
    /\ pc' = "done"
    /\ bodies' = bodies \ Range(deferred)
    /\ deferred' = <<>>

(***************************************************************************)
(* main, lines 36-55: the list file, the user, the download directory.     *)
(***************************************************************************)
StartupFails ==
    /\ pc = "start"
    /\ \E failure \in { "Failed to read repos list file:",
                        "Failed to get current user:",
                        "Failed to create download directory:" } :
           stdout' = <<failure>>
    /\ Return
    /\ UNCHANGED << responses, GOOS, repos, cursor, repoInfo, release, availableApps, line,
                    response, dlCursor, requests, dirExists, files, profile,
                    dlCalls, pathCalls, run >>

Started(listFiles) ==
    /\ pc = "start"
    /\ \E data \in listFiles : repos' = Split(data, "\n")
    /\ dirExists' = TRUE
    /\ cursor' = 1
    /\ pc' = "fetch"
    /\ stdout' = <<>>
    /\ UNCHANGED << responses, GOOS, repoInfo, release, availableApps, deferred, line, response,
                    dlCursor, requests, bodies, files, profile, dlCalls,
                    pathCalls, run >>

Startup == Started(RepoFiles)

\* The list files that name no repository
FilesWithoutReferences ==
    {data \in RepoFiles :
        \A n \in 1..Len(Split(data, "\n")) :
            TrimSpace(Split(data, "\n")[n]) = <<>>}

StartupWithoutReferences == Started(FilesWithoutReferences)

(***************************************************************************)
(* main, lines 64-137: the fetch loop.                                     *)
(***************************************************************************)
Request(kind, ref, target) == [kind |-> kind, ref |-> ref, target |-> target]

Body(kind, ref) == [kind |-> kind, ref |-> ref]

Response(kind, ref, outcome) == [kind |-> kind, ref |-> ref, outcome |-> outcome]

\* What can happen to a metadata request
Outcomes == {"transport error", "non-200", "read error", "decode error", "ok"}

\* lines 65-68
SkipBlank ==
    /\ pc = "fetch"
    /\ cursor <= Len(repos)
    /\ TrimSpace(repos[cursor]) = <<>>
    /\ cursor' = cursor + 1
    /\ stdout' = <<>>
    /\ repoInfo' = ""
    /\ release' = <<>>
    /\ UNCHANGED << responses, pc, GOOS, repos, availableApps, deferred, line, response, dlCursor, requests, bodies,
                    dirExists, files, profile, dlCalls, pathCalls, run >>

\* InfoResponse without the status check of lines 77-80
InfoResponseAnyStatus(outcome) ==
    CASE outcome = "transport error" ->
            [out |-> <<"Failed to get repository info:">>,
             opened |-> FALSE, deferred |-> FALSE, ok |-> FALSE]
      [] outcome = "read error" ->
            [out |-> <<"Failed to read repository info response body:">>,
             opened |-> TRUE, deferred |-> TRUE, ok |-> FALSE]
      [] outcome = "decode error" ->
            [out |-> <<"Failed to unmarshal repository info:">>,
             opened |-> TRUE, deferred |-> TRUE, ok |-> FALSE]
      [] outcome \in {"ok", "non-200"} ->
            [out |-> <<>>, opened |-> TRUE, deferred |-> TRUE, ok |-> TRUE]

\* lines 72-94: how the response to the description request is handled:
\* what is printed, whether a body was opened, whether its Close was
\* deferred, and whether the iteration goes on
InfoResponse(outcome) ==
    CASE outcome = "transport error" ->
            [out |-> <<"Failed to get repository info:">>,
             opened |-> FALSE, deferred |-> FALSE, ok |-> FALSE]
      [] outcome = "non-200" ->
            [out |-> <<"Received non-200 response code when getting repository info:">>,
             opened |-> TRUE, deferred |-> FALSE, ok |-> FALSE]
      [] outcome = "read error" ->
            [out |-> <<"Failed to read repository info response body:">>,
             opened |-> TRUE, deferred |-> TRUE, ok |-> FALSE]
      [] outcome = "decode error" ->
            [out |-> <<"Failed to unmarshal repository info:">>,
             opened |-> TRUE, deferred |-> TRUE, ok |-> FALSE]
      [] outcome = "ok" ->
            [out |-> <<>>, opened |-> TRUE, deferred |-> TRUE, ok |-> TRUE]

\* lines 70-94: the request for the repository's description
GetRepoInfo ==
    /\ pc = "fetch"
    /\ cursor <= Len(repos)
    /\ TrimSpace(repos[cursor]) # <<>>
    /\ requests' = Append(requests,
                          Request("info", cursor, TrimSpace(repos[cursor])))
    /\ \E outcome \in Outcomes, description \in Descriptions :
        LET body == Body("info", cursor)
            handled == InfoResponse(outcome)
        IN  /\ responses' = Append(responses, Response("info", cursor, outcome))
            /\ stdout' = handled.out
            /\ bodies' = IF handled.opened THEN bodies \cup {body} ELSE bodies
            /\ deferred' = IF handled.deferred
                           THEN Append(deferred, body) ELSE deferred
            /\ IF handled.ok
               THEN /\ repoInfo' = description
                    /\ pc' = "release"
                    /\ UNCHANGED cursor
               ELSE /\ repoInfo' = ""
                    /\ cursor' = cursor + 1
                    /\ UNCHANGED pc
    /\ release' = <<>>
    /\ UNCHANGED << GOOS, repos, availableApps, line, response, dlCursor,
                    dirExists, files, profile, dlCalls, pathCalls, run >>

\* Matches with "or" for "and"
MatchesEither(name) == Contains(name, GOOS) \/ Contains(name, GOARCH)

\* line 128
Matches(name) == Contains(name, GOOS) /\ Contains(name, GOARCH)

\* ScanAssets without the break of line 134: every matching asset is added
RECURSIVE ScanAssetsNoBreak(_, _, _, _)
ScanAssetsNoBreak(apps, assets, description, n) ==
    IF n > Len(assets) THEN apps
    ELSE IF Contains(assets[n].Name, GOOS) /\ Contains(assets[n].Name, GOARCH)
         THEN ScanAssetsNoBreak(
                 Append(apps, [Name |-> assets[n].Name,
                               Description |-> description,
                               DownloadURL |-> assets[n].BrowserDownloadUrl]),
                 assets, description, n + 1)
         ELSE ScanAssetsNoBreak(apps, assets, description, n + 1)

\* lines 127-136: the scan of release.Assets from position n on
RECURSIVE ScanAssets(_, _, _, _)
ScanAssets(apps, assets, description, n) ==
    IF n > Len(assets) THEN apps
    ELSE IF Matches(assets[n].Name)
         THEN Append(apps, [Name |-> assets[n].Name,
                            Description |-> description,
                            DownloadURL |-> assets[n].BrowserDownloadUrl])
         ELSE ScanAssets(apps, assets, description, n + 1)

\* lines 97-125: how the response to the release request is handled
ReleaseResponse(outcome) ==
    CASE outcome = "transport error" ->
            [out |-> <<"Failed to get latest release:">>,
             opened |-> FALSE, deferred |-> FALSE, ok |-> FALSE]
      [] outcome = "non-200" ->
            [out |-> <<"Received non-200 response code:">>,
             opened |-> TRUE, deferred |-> FALSE, ok |-> FALSE]
      [] outcome = "read error" ->
            [out |-> <<"Failed to read response body:">>,
             opened |-> TRUE, deferred |-> TRUE, ok |-> FALSE]
      [] outcome = "decode error" ->
            [out |-> <<"Failed to unmarshal release info:">>,
             opened |-> TRUE, deferred |-> TRUE, ok |-> FALSE]
      [] outcome = "ok" ->
            [out |-> <<>>, opened |-> TRUE, deferred |-> TRUE, ok |-> TRUE]

\* lines 96-136: the request for the latest release, and the selection
GetLatestRelease ==
    /\ pc = "release"
    /\ requests' = Append(requests,
                          Request("release", cursor, TrimSpace(repos[cursor])))
    /\ \E outcome \in Outcomes :
        LET body == Body("release", cursor)
            handled == ReleaseResponse(outcome)
        IN  /\ responses' = Append(responses,
                                   Response("release", cursor, outcome))
            /\ stdout' = handled.out
            /\ bodies' = IF handled.opened THEN bodies \cup {body} ELSE bodies
            /\ deferred' = IF handled.deferred
                           THEN Append(deferred, body) ELSE deferred
            /\ IF handled.ok
               THEN \E assets \in AssetLists :
                       /\ release' = assets
                       /\ availableApps' =
                             ScanAssets(availableApps, assets, repoInfo, 1)
               ELSE UNCHANGED << release, availableApps >>
    /\ cursor' = cursor + 1
    /\ pc' = "fetch"
    /\ UNCHANGED << GOOS, repos, repoInfo, line, response, dlCursor,
                    dirExists, files, profile, dlCalls, pathCalls, run >>

\* lines 139-143: the loop is over, the list and the question are printed
PrintAvailable ==
    /\ pc = "fetch"
    /\ cursor > Len(repos)
    /\ stdout' = <<"The following applications are available for your system:">>
                 \o [n \in 1..Len(availableApps) |-> availableApps[n].Name]
    /\ release' = <<>>
    /\ repoInfo' = ""
    /\ pc' = "prompt"
    /\ UNCHANGED << responses, GOOS, repos, cursor, availableApps, deferred, line,
                    response, dlCursor, requests, bodies, dirExists, files,
                    profile, dlCalls, pathCalls, run >>

(***************************************************************************)
(* main, lines 145-157: the confirmation.                                  *)
(***************************************************************************)
\* ReadFailed with the error of ReadString dropped
ReadFailedIgnored(read) == FALSE

\* line 147
ReadFailed(read) == read.err

\* Normalise without ToLower
NormaliseKeepCase(data) == TrimSpace(data)

\* line 152
Normalise(data) == ToLower(TrimSpace(data))

\* AfterAnswer with the PATH registration inside the "yes" branch
AfterAnswerLeave(answer) == IF answer = Yes THEN "download" ELSE "done"

\* lines 153-158: what follows the answer
AfterAnswer(answer) == IF answer = Yes THEN "download" ELSE "path"

Confirm ==
    /\ pc = "prompt"
    /\ \E input \in StdinInputs :
        LET read == ReadString(input, "\n") IN
            /\ line' = read
            /\ IF ReadFailed(read)
               THEN /\ stdout' = <<"Failed to read user input:">>
                    /\ Return
                    /\ UNCHANGED response
               ELSE /\ stdout' = <<>>
                    /\ response' = Normalise(read.data)
                    /\ pc' = AfterAnswer(Normalise(read.data))
                    /\ UNCHANGED << bodies, deferred >>
    /\ dlCursor' = 1
    /\ UNCHANGED << responses, GOOS, repos, cursor, repoInfo, release,
                    availableApps, requests, dirExists, files, profile,
                    dlCalls, pathCalls, run >>

(***************************************************************************)
(* downloadAndStore, lines 170-206, called from the loop of lines 154-156. *)
(***************************************************************************)
\* What can happen to a download
DownloadOutcomes == {"transport error", "create error", "write error",
                     "chmod error", "ok"}

StatusCodes == {200, 404}

\* AppName without filepath.Base
AppNameOfUrl(url) ==
    LET index == Index(url, <<"-","v">>)
    IN  IF index = -1
        THEN [ok |-> FALSE, name |-> url]
        ELSE [ok |-> TRUE, name |-> SubSeq(url, 1, index)]

\* lines 178-185: the application name, or the failure to find the marker
AppName(url) ==
    LET filename == Base(url)
        index == Index(filename, <<"-","v">>)
    IN  IF index = -1
        THEN [ok |-> FALSE, name |-> filename]
        ELSE [ok |-> TRUE, name |-> SubSeq(filename, 1, index)]

\* os.Create keeps the mode of a file that exists
ModeAfterCreate(name) ==
    IF name \in DOMAIN files THEN files[name].executable ELSE FALSE

File(status, complete, executable) ==
    [status |-> status, complete |-> complete, executable |-> executable]

\* lines 171-205: what the call prints and the files it leaves behind
Stored(url, outcome, status) ==
    LET app == AppName(url) IN
    IF outcome = "transport error"
    THEN [out |-> "Failed to download file:", files |-> files]
    ELSE IF ~app.ok
    THEN [out |-> "Invalid filename format, cannot find version:",
          files |-> files]
    ELSE IF outcome = "create error" \/ app.name = <<>>
    THEN [out |-> "Failed to create file:", files |-> files]
    ELSE IF outcome = "write error"
    THEN [out |-> "Failed to write file:",
          files |-> (app.name :> File(status, FALSE, ModeAfterCreate(app.name)))
                    @@ files]
    ELSE IF outcome = "chmod error"
    THEN [out |-> "Failed to change file permissions:",
          files |-> (app.name :> File(status, TRUE, ModeAfterCreate(app.name)))
                    @@ files]
    ELSE [out |-> "File downloaded and saved to:",
          files |-> (app.name :> File(status, TRUE, TRUE)) @@ files]

DownloadAndStore ==
    /\ pc = "download"
    /\ dlCursor <= Len(availableApps)
    /\ LET url == availableApps[dlCursor].DownloadURL IN
        /\ dlCalls' = Append(dlCalls, url)
        /\ requests' = Append(requests, Request("asset", dlCursor, url))
        /\ \E outcome \in DownloadOutcomes, status \in StatusCodes :
            LET result == Stored(url, outcome, status) IN
            /\ stdout' = <<result.out>>
            /\ files' = result.files
            \* the body and the output file are closed when the call returns
            /\ bodies' = IF outcome = "transport error"
                         THEN bodies
                         ELSE (bodies \cup {Body("asset", dlCursor)})
                              \ {Body("asset", dlCursor)}
    /\ dlCursor' = dlCursor + 1
    /\ UNCHANGED << responses, pc, GOOS, repos, cursor, repoInfo, release,
                    availableApps, deferred, line, response, dirExists,
                    profile, pathCalls, run >>

\* line 154: the loop is over
DownloadsDone ==
    /\ pc = "download"
    /\ dlCursor > Len(availableApps)
    /\ pc' = "path"
    /\ stdout' = <<>>
    /\ UNCHANGED << responses, GOOS, repos, cursor, repoInfo, release, availableApps,
                    deferred, line, response, dlCursor, requests, bodies,
                    dirExists, files, profile, dlCalls, pathCalls, run >>

(***************************************************************************)
(* main, lines 158-168, and addToPath, lines 208-246.                      *)
(***************************************************************************)
\* lines 158-161
ManualPath ==
    /\ pc = "path"
    /\ GOOS = Windows
    /\ stdout' = <<"Please add the following directory to your PATH manually in Windows:">>
    /\ Return
    /\ UNCHANGED << responses, GOOS, repos, cursor, repoInfo, release, availableApps,
                    line, response, dlCursor, requests, dirExists, files,
                    profile, dlCalls, pathCalls, run >>

\* lines 212-220: the profile file of the shell, or none
ShellRc(shell) ==
    IF Contains(shell, Bash) THEN ".bashrc"
    ELSE IF Contains(shell, Zsh) THEN ".zshrc"
    ELSE "unsupported"

\* What can happen to the profile file
PathOutcomes == {"open error", "write error", "ok"}

\* AddedToPath that skips the write when the line is already in the file
AddedToPathOnce(dir, shell, outcome) ==
    LET shellrc == IF Contains(shell, Bash) THEN ".bashrc"
                   ELSE IF Contains(shell, Zsh) THEN ".zshrc"
                   ELSE "unsupported"
    IN
    IF shellrc = "unsupported"
    THEN [out |-> "Unsupported shell. Please add the following directory to your PATH manually:",
          profile |-> profile]
    ELSE IF outcome = "open error"
    THEN [out |-> "Failed to open shellrc file:", profile |-> profile]
    ELSE IF outcome = "write error"
    THEN [out |-> "Failed to write to shellrc file:", profile |-> profile]
    ELSE [out |-> "Successfully added to PATH in",
          profile |-> [profile EXCEPT ![shellrc] =
                          IF \E n \in 1..Len(@) : @[n] = ExportLine(dir)
                          THEN @ ELSE Append(@, ExportLine(dir))]]

\* lines 208-246: what addToPath prints and the profile files it leaves
AddedToPath(dir, shell, outcome) ==
    LET shellrc == ShellRc(shell) IN
    IF shellrc = "unsupported"
    THEN [out |-> "Unsupported shell. Please add the following directory to your PATH manually:",
          profile |-> profile]
    ELSE IF outcome = "open error"
    THEN [out |-> "Failed to open shellrc file:", profile |-> profile]
    ELSE IF outcome = "write error"
    THEN [out |-> "Failed to write to shellrc file:", profile |-> profile]
    ELSE [out |-> "Successfully added to PATH in",
          profile |-> [profile EXCEPT
                         ![shellrc] = Append(@, ExportLine(dir))]]

\* lines 162-168: the call of addToPath, then main returns
AddToPath ==
    /\ pc = "path"
    /\ GOOS # Windows
    /\ \E shell \in Shells, outcome \in PathOutcomes :
        LET result == AddedToPath(DownloadPath, shell, outcome) IN
        /\ pathCalls' = Append(pathCalls, [run |-> run, shell |-> shell,
                                          out |-> result.out])
        /\ stdout' = <<result.out>>
        /\ profile' = result.profile
    /\ Return
    /\ UNCHANGED << responses, GOOS, repos, cursor, repoInfo, release, availableApps,
                    line, response, dlCursor, requests, dirExists, files,
                    dlCalls, run >>

(***************************************************************************)
(* The program is executed again: the process state is fresh, the file     *)
(* system is what the earlier executions left.                             *)
(***************************************************************************)
Restart ==
    /\ pc = "done"
    /\ run < MaxRuns
    /\ run' = run + 1
    /\ pc' = "start"
    /\ repos' = <<>>
    /\ cursor' = 1
    /\ repoInfo' = ""
    /\ release' = <<>>
    /\ availableApps' = <<>>
    /\ deferred' = <<>>
    /\ line' = NoLine
    /\ response' = <<>>
    /\ dlCursor' = 1
    /\ requests' = <<>>
    /\ responses' = <<>>
    /\ bodies' = {}
    /\ stdout' = <<>>
    /\ dlCalls' = <<>>
    /\ UNCHANGED << GOOS, dirExists, files, profile, pathCalls >>

Next ==
    \/ StartupFails
    \/ Startup
    \/ SkipBlank
    \/ GetRepoInfo
    \/ GetLatestRelease
    \/ PrintAvailable
    \/ Confirm
    \/ DownloadAndStore
    \/ DownloadsDone
    \/ ManualPath
    \/ AddToPath

Spec == Init /\ [][Next]_vars

(***************************************************************************)
(* Repeated executions on list files that name no repository: every        *)
(* execution goes from the list file to the PATH registration.             *)
(***************************************************************************)
NextRuns ==
    \/ StartupFails
    \/ StartupWithoutReferences
    \/ SkipBlank
    \/ PrintAvailable
    \/ Confirm
    \/ DownloadsDone
    \/ ManualPath
    \/ AddToPath
    \/ Restart

SpecRuns == Init /\ [][NextRuns]_vars

(***************************************************************************)
(* Vocabulary of the properties.                                           *)
(***************************************************************************)
Last(q) == q[Len(q)]

\* name holds the OS identifier and the architecture identifier, with the
\* case they have
HoldsPlatform(name) ==
    /\ \E m \in 0..Len(name) : OccursAt(name, GOOS, m)
    /\ \E m \in 0..Len(name) : OccursAt(name, GOARCH, m)

\* the positions of the assets whose name holds both identifiers
Hits(assets) == {n \in 1..Len(assets) : HoldsPlatform(assets[n].Name)}

FirstHit(assets) == CHOOSE n \in Hits(assets) : \A m \in Hits(assets) : n <= m

\* assets with the entries at n and n + 1 exchanged
Exchanged(assets, n) ==
    [assets EXCEPT ![n] = assets[n + 1], ![n + 1] = assets[n]]

EntryFor(asset, description) ==
    [Name |-> asset.Name, Description |-> description,
     DownloadURL |-> asset.BrowserDownloadUrl]

\* this step is the selection over a decoded release
SelectionStep ==
    /\ pc = "release"
    /\ pc' = "fetch"
    /\ Last(responses').outcome = "ok"

\* the references whose iteration is over
Processed ==
    {n \in 1..Len(repos) : n < cursor /\ TrimSpace(repos[n]) # <<>>}

\* the references one of whose requests failed, and those whose
\* repository-info request failed
Failing == {x.ref : x \in {y \in Range(responses) : y.outcome # "ok"}}
InfoFailing ==
    {x.ref : x \in {y \in Range(responses) :
                        y.kind = "info" /\ y.outcome # "ok"}}

\* the line is "yes" in any case, within whitespace
SaysYes(data) ==
    \E n \in 0..Len(data) :
        /\ n + 3 <= Len(data)
        /\ \A m \in 1..n : data[m] \in Space
        /\ data[n + 1] \in {"y", "Y"}
        /\ data[n + 2] \in {"e", "E"}
        /\ data[n + 3] \in {"s", "S"}
        /\ \A m \in (n + 4)..Len(data) : data[m] \in Space

LineRead == line.data # <<>> /\ ~line.err

OfferedUrls == [n \in 1..Len(availableApps) |-> availableApps[n].DownloadURL]

\* name is what precedes the first "-v" of base
TruncatedAtMarker(base, name) ==
    /\ OccursAt(base, <<"-","v">>, Len(name))
    /\ name = SubSeq(base, 1, Len(name))
    /\ \A m \in 0..(Len(name) - 1) : ~OccursAt(base, <<"-","v">>, m)

HasMarker(base) == \E m \in 0..Len(base) : OccursAt(base, <<"-","v">>, m)

Success == "Successfully added to PATH in"

\* the calls of addToPath that went to the profile file rc
CallsOn(rc) == {n \in 1..Len(pathCalls) : ShellRc(pathCalls[n].shell) = rc}

(***************************************************************************)
(* Properties.                                                             *)
(***************************************************************************)

\* C1: a reference one of whose metadata requests fails (transport error,
\* non-200, read error, decode error) adds no entry to availableApps and
\* does not end the run: every reference before the cursor has had its
\* repository-info request, the run leaves the fetch loop only at the end
\* of the list, and a reference whose repository-info request failed never
\* has a releases/latest request.
C1_FailingReferenceSkipped ==
    /\ Len(availableApps) <= Cardinality(Processed \ Failing)
    /\ \A n \in Processed :
          \E r \in Range(requests) : r.kind = "info" /\ r.ref = n
    /\ (requests # <<>> /\ pc \notin {"fetch", "release"})
          => cursor = Len(repos) + 1
    /\ \A n \in InfoFailing :
          ~\E r \in Range(requests) : r.kind = "release" /\ r.ref = n

\* C1 witness: the first reference failed at its repository-info request,
\* and a later reference was fetched and added an entry.
C1_Witness ==
    /\ responses # <<>>
    /\ responses[1].kind = "info"
    /\ responses[1].outcome = "non-200"
    /\ \E r \in Range(requests) : r.kind = "release" /\ r.ref > responses[1].ref
    /\ Len(availableApps) = 1

\* C2: the selection over a decoded release adds exactly the first asset,
\* in list order, whose name holds both identifiers, and nothing when no
\* asset does; exchanging a non-matching asset with its neighbour (the
\* steps every reordering of the non-matching assets is made of) gives the
\* same result.
C2_FirstMatchSelected ==
    [][ SelectionStep =>
          /\ availableApps' =
                IF Hits(release') = {} THEN availableApps
                ELSE Append(availableApps,
                            EntryFor(release'[FirstHit(release')], repoInfo))
          /\ \A n \in 1..(Len(release') - 1) :
                (n \notin Hits(release') \/ n + 1 \notin Hits(release'))
                   => ScanAssets(availableApps, Exchanged(release', n),
                                 repoInfo, 1)
                        = availableApps'
      ]_vars

\* C2 witness: a release whose first asset does not match and whose second
\* does has been scanned, and the second asset is the entry added.
C2_Witness ==
    /\ pc = "fetch"
    /\ Len(release) >= 2
    /\ Hits(release) # {}
    /\ FirstHit(release) = 2
    /\ availableApps # <<>>
    /\ Last(availableApps) = EntryFor(release[2], "a tool")

\* C3 as stated: a selection adds an entry only if exactly one asset of the
\* release holds both identifiers; zero or several matching assets add
\* nothing.
C3_ExactlyOneMatch ==
    [][ SelectionStep =>
          (Cardinality(Hits(release')) # 1 => availableApps' = availableApps)
      ]_vars

\* C3 amended: a selection adds an entry only if at least one asset of the
\* release holds both identifiers; with none it adds nothing, with several
\* it adds one entry, for the first of them.
C3_AtLeastOneMatch ==
    [][ SelectionStep =>
          /\ Hits(release') = {} => availableApps' = availableApps
          /\ availableApps' # availableApps => Hits(release') # {}
          /\ Cardinality(Hits(release')) > 1 =>
                /\ Len(availableApps') = Len(availableApps) + 1
                /\ Last(availableApps').Name
                      = release'[FirstHit(release')].Name
      ]_vars

\* C3 witness: a release with two different matching assets has been
\* scanned and the first of them is the entry added.
C3_Witness ==
    /\ pc = "fetch"
    /\ Cardinality(Hits(release)) = 2
    /\ release[1].Name # release[2].Name
    /\ availableApps # <<>>
    /\ Last(availableApps).Name = release[1].Name

\* C4: downloadAndStore is called only when the line read says "yes" (any
\* case, within whitespace), and then once per available application, in
\* list order; after any other line that was read there is no call and no
\* file in the download directory.
C4_ConfirmationGate ==
    /\ dlCalls # <<>> => LineRead /\ SaysYes(line.data)
    /\ pc = "download" => dlCalls = SubSeq(OfferedUrls, 1, dlCursor - 1)
    /\ (pc \in {"path", "done"} /\ LineRead /\ SaysYes(line.data))
          => dlCalls = OfferedUrls
    /\ ~SaysYes(line.data) => dlCalls = <<>> /\ files = <<>>

\* C4 witness: the answer " YES<tab>" was read, with something to
\* download, and every download has been attempted.
C4_Witness ==
    /\ pc = "done"
    /\ line.data = <<" ","Y","E","S","\t","\n">>
    /\ Len(availableApps) = 2
    /\ dlCalls = OfferedUrls

\* C5: a call of downloadAndStore creates or changes no file but the one
\* named by the base name of its URL cut at the first "-v"; when it
\* reports success that file is complete and executable; when the base
\* name has no "-v" it reports an error, the directory stays as it was,
\* and the loop goes on to the next asset.
C5_NameFromBaseName ==
    [][ (pc = "download" /\ dlCalls' # dlCalls) =>
          LET base == Base(Last(dlCalls')) IN
          /\ Last(dlCalls') = availableApps[dlCursor].DownloadURL
          /\ \A name \in DOMAIN files' :
                (name \notin DOMAIN files \/ files'[name] # files[name])
                   => TruncatedAtMarker(base, name)
          /\ stdout' = <<"File downloaded and saved to:">> =>
                \E name \in DOMAIN files' :
                   /\ TruncatedAtMarker(base, name)
                   /\ files'[name].complete
                   /\ files'[name].executable
          /\ ~HasMarker(base) =>
                /\ stdout' \in
                      { <<"Invalid filename format, cannot find version:">>,
                        <<"Failed to download file:">> }
                /\ files' = files
                /\ pc' = "download"
                /\ dlCursor' = dlCursor + 1
      ]_vars

\* C5 witness: the asset whose URL has another base name than the asset
\* has been stored, under the name its URL gives.
C5_Witness ==
    /\ stdout = <<"File downloaded and saved to:">>
    /\ Base(Last(dlCalls)) = AssetName(<<"w">>, V1, Linux, GOARCH)
    /\ <<"w">> \in DOMAIN files

\* C6 as stated: an asset whose download answers with a status other than
\* 200 is skipped, so no file of the download directory holds such a
\* response.
C6_Non200DownloadSkipped ==
    \A name \in DOMAIN files : files[name].status = 200

\* C7: a fatal failure ends the run where it occurs: after a failure of
\* the startup (list file, user, directory) no request was issued and the
\* download directory was not created; after a failed read of the
\* confirmation line no asset was downloaded and no profile file changed.
C7_FatalFailureEndsRun ==
    /\ stdout \in { <<"Failed to read repos list file:">>,
                    <<"Failed to get current user:">>,
                    <<"Failed to create download directory:">> }
          => /\ pc = "done"
             /\ requests = <<>>
             /\ ~dirExists
    /\ line.err
          => /\ pc = "done"
             /\ dlCalls = <<>>
             /\ files = <<>>
             /\ pathCalls = <<>>
             /\ \A rc \in ShellProfiles : profile[rc] = InitialProfile

\* C7 witness: the input ended after "yes" without a newline while an
\* application was on offer, and the run is over.
C7_Witness ==
    /\ pc = "done"
    /\ line.err
    /\ line.data = Yes
    /\ availableApps # <<>>

\* C8: as long as no write to a profile file has failed, the file holds
\* its earlier content followed by one export line for every call of
\* addToPath that opened it: n such calls leave n identical lines.
C8_NoDeduplication ==
    \A rc \in ShellProfiles :
        LET wrote == {n \in CallsOn(rc) : pathCalls[n].out = Success}
            failed == {n \in CallsOn(rc) :
                          pathCalls[n].out = "Failed to write to shellrc file:"}
        IN  failed = {} =>
               profile[rc] = InitialProfile
                  \o [n \in 1..Cardinality(wrote) |-> ExportLine(DownloadPath)]

\* C8 witness: two executions under bash have both registered the
\* directory, and .bashrc ends in two export lines.
C8_Witness ==
    /\ run = 2
    /\ pc = "done"
    /\ Len(pathCalls) = 2
    /\ \A n \in 1..2 : pathCalls[n].out = Success
                         /\ ShellRc(pathCalls[n].shell) = ".bashrc"
    /\ Len(profile[".bashrc"]) = Len(InitialProfile) + 2

\* C9 as stated: every response body opened in an iteration is closed by
\* the end of that iteration: the only bodies open are those of the
\* iteration in progress.
C9_BodiesReleasedPerIteration ==
    \A b \in bodies : pc = "release" /\ b.kind = "info" /\ b.ref = cursor

\* C10 as stated: off Windows, once the confirmation line has been read
\* the run ends with exactly one call of addToPath, whatever the answer
\* and the downloads, and under a supported shell the export line is
\* appended to the profile file.
C10_ExportLineWheneverSupported ==
    (pc = "done" /\ LineRead /\ GOOS # Windows) =>
        /\ Len(pathCalls) = 1
        /\ LET rc == ShellRc(pathCalls[1].shell)
           IN  rc \in ShellProfiles
                 => profile[rc] = Append(InitialProfile,
                                         ExportLine(DownloadPath))

\* C10 amended: off Windows, once the confirmation line has been read the
\* run ends with exactly one call of addToPath, made after the download
\* loop, whatever the answer and the downloads; under a supported shell
\* whose profile file opens and takes the write, the export line is
\* appended.
C10_PathRegistrationAlways ==
    /\ pathCalls # <<>> =>
          /\ pc = "done"
          /\ LineRead
          /\ GOOS # Windows
          /\ Len(pathCalls) = 1
          /\ response = Yes => dlCalls = OfferedUrls
    /\ (pc = "done" /\ LineRead /\ GOOS # Windows) =>
          /\ Len(pathCalls) = 1
          /\ LET call == pathCalls[1]
                 rc == ShellRc(call.shell)
             IN  (rc \in ShellProfiles
                    /\ call.out \notin {"Failed to open shellrc file:",
                                        "Failed to write to shellrc file:"})
                   => profile[rc] = Append(InitialProfile,
                                           ExportLine(DownloadPath))

\* C10 witness: the answer was "no", nothing was downloaded, and the
\* export line is in .bashrc.
C10_Witness ==
    /\ pc = "done"
    /\ response = <<"n","o">>
    /\ availableApps # <<>>
    /\ dlCalls = <<>>
    /\ Last(profile[".bashrc"]) = ExportLine(DownloadPath)

====
